---- MODULE Spec2Model ----
(***************************************************************************)
(* A model of gitlab-search-cli (src/src/main.rs): the paged project       *)
(* lister get_projects, the project resolution and the concurrent search   *)
(* fan-out of handle_search_command, handle_projects_command, and the      *)
(* instance registry as handle_config_command maintains it.                *)
(*                                                                         *)
(* Strings that the program compares or parses (the --project argument,    *)
(* path_with_namespace, name_with_namespace) are sequences of one-letter   *)
(* strings, so that parsing and comparison are computed and not assumed.   *)
(***************************************************************************)
EXTENDS Integers, Sequences, FiniteSets, TLC

\* ------------------------------------------------------------------ bounds
MaxIdLen == 2       \* longest --project argument, in characters
MaxProjects == 3    \* project ids the small backends draw from: 1..MaxProjects
MaxPageLen == 2     \* longest page of a small backend
MaxPages == 2       \* pages a small backend holds before it runs out
MaxMatches == 2     \* most matches one blob search returns
MaxPage == 4        \* get_projects is followed up to this page number
MaxInstances == 2   \* instance names the registry and the commands draw from

\* ------------------------------------------------------- program constants
per_page == 50

\* ----------------------------------------------------------------- strings
DigitChars == <<"0", "1", "2", "3", "4", "5", "6", "7", "8", "9">>

IsDigit(c) == \E d \in 1..10 : DigitChars[d] = c

DigitVal(c) == (CHOOSE d \in 1..10 : DigitChars[d] = c) - 1

RECURSIVE DecimalValue(_)
DecimalValue(ds) ==
    IF Len(ds) = 0 THEN 0
    ELSE DecimalValue(SubSeq(ds, 1, Len(ds) - 1)) * 10 + DigitVal(ds[Len(ds)])

\* u64::to_string
RECURSIVE to_string(_)
to_string(n) ==
    IF n < 10 THEN <<DigitChars[n + 1]>>
    ELSE to_string(n \div 10) \o <<DigitChars[(n % 10) + 1]>>

\* str::parse::<u64>: an optional "+", then one or more decimal digits.
\* (Arguments of at most MaxIdLen digits cannot exceed u64::MAX.)
parse_u64(s) ==
    LET digits == IF Len(s) > 0 /\ s[1] = "+" THEN Tail(s) ELSE s
    IN  IF Len(digits) > 0 /\ \A k \in 1..Len(digits) : IsDigit(digits[k])
        THEN [ok |-> TRUE, val |-> DecimalValue(digits)]
        ELSE [ok |-> FALSE, val |-> 0]

\* The characters a --project argument is drawn from.
Chars == {"0", "1", "+", "a", "A"}

RECURSIVE StringsOfLen(_)
StringsOfLen(n) ==
    IF n = 0 THEN {<<>>}
    ELSE {Append(s, c) : s \in StringsOfLen(n - 1), c \in Chars}

Identifiers == UNION {StringsOfLen(n) : n \in 0..MaxIdLen}

\* Option<String>
None == [some |-> FALSE, val |-> <<>>]
Some(s) == [some |-> TRUE, val |-> s]

\* ---------------------------------------------------------------- projects
\* What the forge holds: project id |-> path_with_namespace.  Ids 1 and 3
\* share a path (a fork under the same path is "not guaranteed unique"),
\* id 2 extends it, id 4 differs from it in case only.
PathTable == << <<"a">>, <<"a", "A">>, <<"a">>, <<"A">> >>

PathOf(id) == PathTable[((id - 1) % Len(PathTable)) + 1]

NameOf(id) == <<"n">> \o to_string(id)

\* struct Project, as deserialized from the listing endpoint
Project(id) ==
    [id |-> id, name_with_namespace |-> NameOf(id), path_with_namespace |-> PathOf(id)]

\* The synthetic Project of the numeric path (lines 401-420)
SyntheticProject(project_id, project_id_or_path) ==
    [id |-> project_id,
     name_with_namespace |-> project_id_or_path,
     path_with_namespace |-> project_id_or_path]

\* ------------------------------------------------------- listing backends
RECURSIVE Flatten(_)
Flatten(pages) ==
    IF Len(pages) = 0 THEN <<>> ELSE Head(pages) \o Flatten(Tail(pages))

Increasing(ids) == \A a, b \in 1..Len(ids) : a < b => ids[a] < ids[b]

RECURSIVE SeqsUpTo(_, _)
SeqsUpTo(S, n) ==
    IF n = 0 THEN {<<>>}
    ELSE SeqsUpTo(S, n - 1)
         \cup {Append(s, x) : s \in {t \in SeqsUpTo(S, n - 1) : Len(t) = n - 1}, x \in S}

IdPages == {p \in SeqsUpTo(1..MaxProjects, MaxPageLen) : Increasing(p)}

\* order_by=id: the pages of a backend list ids in increasing order.  A
\* page may be empty anywhere.  repeat: a server that ignores the page
\* number once its pages run out and answers with its last page again.
SmallBackends ==
    {[pages |-> ps, repeat |-> r] :
        ps \in {q \in SeqsUpTo(IdPages, MaxPages) : Increasing(Flatten(q))},
        r \in BOOLEAN}

Range(a, b) == [j \in 1..(b - a + 1) |-> a + j - 1]

\* The backend of the pagination test: pages of 50, 50 and 23 projects.
ExampleBackend ==
    [pages |-> <<Range(1, 50), Range(51, 100), Range(101, 123)>>, repeat |-> FALSE]

Backends ==
    {b \in SmallBackends :
        b.repeat => (Len(b.pages) > 0 /\ Len(b.pages[Len(b.pages)]) > 0)}

\* The ids the listing endpoint answers for page n
PageIds(b, n) ==
    IF n <= Len(b.pages) THEN b.pages[n]
    ELSE IF b.repeat THEN b.pages[Len(b.pages)]
    ELSE <<>>

\* response.json(): Vec<Project>
PageOf(b, n) == [j \in 1..Len(PageIds(b, n)) |-> Project(PageIds(b, n)[j])]

\* ------------------------------------------------------- search responses
\* Vec<SearchResultRaw> of k matches, in the order the remote returns them
\* (by relevance: not sorted by startline).
Matches(project_id, k) ==
    [j \in 1..k |-> [project_id |-> project_id, startline |-> k + 1 - j]]

\* ---------------------------------------------------------------- registry
InstanceName(k) == <<"g">> \o to_string(k)

InstanceNames == {InstanceName(k) : k \in 1..MaxInstances}

\* The URLs a config command may give
Urls == {<<"u", "1">>, <<"u", "2">>}

Tokens == {<<"t">>}

\* struct GitLabConfig
GitLabConfig(name, url, token) == [name |-> name, url |-> url, token |-> token]

DistinctNames(reg) ==
    \A a, b \in 1..Len(reg) : a # b => reg[a].name # reg[b].name

\* AppConfig.gitlab_instances as get_config loads it: any list of
\* instances with pairwise distinct names
Registries ==
    {reg \in SeqsUpTo({GitLabConfig(n, u, <<"t">>) : n \in InstanceNames, u \in Urls},
                      MaxInstances) : DistinctNames(reg)}

\* The registry of the runs that do not vary the configuration
DefaultRegistry == <<GitLabConfig(InstanceName(1), <<"u", "1">>, <<"t">>)>>

NoInstance == GitLabConfig(<<>>, <<>>, <<>>)

\* find_instance with an unknown name falling back to the first instance
find_instance_fallback(reg, inst) ==
    IF inst.some /\ \E k \in 1..Len(reg) : reg[k].name = inst.val
    THEN [kind |-> "Ok",
          val |-> reg[CHOOSE k \in 1..Len(reg) : reg[k].name = inst.val]]
    ELSE IF Len(reg) > 0
         THEN [kind |-> "Ok", val |-> reg[1]]
         ELSE [kind |-> "ErrNoInstances", val |-> NoInstance]

\* Lines 378-390 and 335-347: the instance named by --instance, or the
\* first configured one
find_instance(reg, inst) ==
    IF inst.some
    THEN IF \E k \in 1..Len(reg) : reg[k].name = inst.val
         THEN [kind |-> "Ok",
               val |-> reg[CHOOSE k \in 1..Len(reg) :
                              /\ reg[k].name = inst.val
                              /\ \A j \in 1..(k - 1) : reg[j].name # inst.val]]
         ELSE [kind |-> "ErrInstanceNotFound", val |-> NoInstance]
    ELSE IF Len(reg) > 0
         THEN [kind |-> "Ok", val |-> reg[1]]
         ELSE [kind |-> "ErrNoInstances", val |-> NoInstance]

VARIABLES
    registry,           \* AppConfig.gitlab_instances, as stored in config.json
    last_config,        \* arguments and outcome of the last config command
    instance,           \* Search.instance / Projects.instance: Option<String>
    instance_config,    \* the handler's instance_config
    cmd,                \* Commands: "search" | "projects" | "config"
    project,            \* Search.project: Option<String>
    all_projects,       \* Search.all_projects
    archived,           \* Projects.archived
    backend,            \* what the listing endpoint serves
    pc,                 \* position of main / the command handler
    status,             \* result of main: "Running", "Ok", or the error
    route,              \* branch of lines 399-435 taken
    include_archived,   \* get_projects: parameter
    page,               \* get_projects: page
    gp_all_projects,    \* get_projects: all_projects
    calls,              \* listing requests sent, in order
    resp,               \* response to the last listing request
    listRet,            \* value get_projects returned
    printed,            \* projects printed by handle_projects_command
    projects_to_search, \* handle_search_command: projects_to_search
    taskpc,             \* position of each task future
    returned,           \* what search_project_blobs returned to each task
    pending,            \* project_results not yet pushed, per task
    results,            \* Arc<Mutex<Vec<(String, SearchResultRaw)>>>
    lock,               \* holder of the results mutex (0: free)
    pb_pos,             \* ProgressBar position
    errlog,             \* project names of the eprintln! lines
    searchCalls,        \* the search requests sent, in order
    rendered            \* (project_name, result) lines printed after the join

inputs == <<cmd, instance, project, all_projects, archived, backend>>
store == <<registry, last_config>>
listing == <<include_archived, page, gp_all_projects, calls, resp, listRet>>
fanout == <<taskpc, returned, pending, results, lock, pb_pos, errlog, searchCalls>>
vars == <<store, instance_config, inputs, pc, status, route, listing, printed, projects_to_search, fanout, rendered>>

NoResp == [kind |-> "None", val |-> <<>>]
Ok(v) == [kind |-> "Ok", val |-> v]
Err == [kind |-> "Err", val |-> <<>>]

NoConfig ==
    [name |-> None, url |-> None, token |-> None, list |-> FALSE,
     outcome |-> "none", connected |-> FALSE]

\* The state of a run before main has done anything
InitRun ==
    /\ last_config = NoConfig
    /\ instance_config = NoInstance
    /\ pc = "start"
    /\ status = "Running"
    /\ route = "none"
    /\ include_archived = FALSE
    /\ page = 1
    /\ gp_all_projects = <<>>
    /\ calls = <<>>
    /\ resp = NoResp
    /\ listRet = NoResp
    /\ printed = <<>>
    /\ projects_to_search = <<>>
    /\ taskpc = <<>>
    /\ returned = <<>>
    /\ pending = <<>>
    /\ results = <<>>
    /\ lock = 0
    /\ pb_pos = 0
    /\ errlog = <<>>
    /\ searchCalls = <<>>
    /\ rendered = <<>>

\* Search and projects commands against one configured instance
Init ==
    /\ registry = DefaultRegistry
    /\ instance = None
    /\ cmd \in {"search", "projects"}
    /\ \/ cmd = "search"
          /\ project \in {None} \cup {Some(s) : s \in Identifiers}
          /\ all_projects \in BOOLEAN
          /\ archived = FALSE
          /\ backend \in Backends
       \/ cmd = "projects"
          /\ project = None
          /\ all_projects = FALSE
          /\ archived \in BOOLEAN
          /\ backend \in Backends \cup {ExampleBackend}
    /\ InitRun

\* -------------------------------------------------------- instance lookup
\* Lines 378-383 / 335-340: `?` on the lookup of a named instance
InstanceNotFound ==
    /\ pc = "start"
    /\ cmd \in {"search", "projects"}
    /\ find_instance(registry, instance).kind = "ErrInstanceNotFound"
    /\ status' = "ErrInstanceNotFound"
    /\ pc' = "exit"
    /\ UNCHANGED <<store, instance_config, inputs, route, listing, printed,
                   projects_to_search, fanout, rendered>>

\* Lines 386-389 / 343-346: no instance named and none configured
NoInstances ==
    /\ pc = "start"
    /\ cmd \in {"search", "projects"}
    /\ find_instance(registry, instance).kind = "ErrNoInstances"
    /\ status' = "ErrNoInstances"
    /\ pc' = "exit"
    /\ UNCHANGED <<store, instance_config, inputs, route, listing, printed,
                   projects_to_search, fanout, rendered>>

\* The lookup succeeds: instance_config is bound
BindInstance ==
    /\ find_instance(registry, instance).kind = "Ok"
    /\ instance_config' = find_instance(registry, instance).val

\* ------------------------------------------------------------ get_projects
\* Entry of get_projects(client, config, include_archived)
EnterGetProjects(inc) ==
    /\ include_archived' = inc
    /\ page' = 1
    /\ gp_all_projects' = <<>>
    /\ pc' = "list_send"
    /\ UNCHANGED <<calls, resp, listRet>>

\* request.send(): one GET for the current page; the endpoint answers with
\* the page, or the request fails (transport, HTTP status or decode error).
ListSend ==
    /\ pc = "list_send"
    /\ page <= MaxPage
    /\ calls' = Append(calls, [page |-> page, per_page |-> per_page,
                               archived |-> include_archived,
                               url |-> instance_config.url,
                               token |-> instance_config.token])
    /\ resp' \in {Ok(PageOf(backend, page)), Err}
    /\ pc' = "list_await"
    /\ UNCHANGED <<store, instance_config, inputs, status, route, include_archived, page, gp_all_projects,
                   listRet, printed, projects_to_search, fanout, rendered>>

\* ListPageOk with the page counter advanced by two
ListPageOkSkip ==
    /\ pc = "list_await"
    /\ resp.kind = "Ok"
    /\ Len(resp.val) > 0
    /\ gp_all_projects' = gp_all_projects \o resp.val
    /\ page' = page + 2
    /\ pc' = "list_send"
    /\ UNCHANGED <<store, instance_config, inputs, status, route, include_archived, calls, resp, listRet,
                   printed, projects_to_search, fanout, rendered>>

\* A non-empty page: extend and go on with the next page
ListPageOk ==
    /\ pc = "list_await"
    /\ resp.kind = "Ok"
    /\ Len(resp.val) > 0
    /\ gp_all_projects' = gp_all_projects \o resp.val
    /\ page' = page + 1
    /\ pc' = "list_send"
    /\ UNCHANGED <<store, instance_config, inputs, status, route, include_archived, calls, resp, listRet,
                   printed, projects_to_search, fanout, rendered>>

\* An empty page: break, return Ok(all_projects)
ListPageEmpty ==
    /\ pc = "list_await"
    /\ resp.kind = "Ok"
    /\ Len(resp.val) = 0
    /\ listRet' = Ok(gp_all_projects)
    /\ gp_all_projects' = <<>>
    /\ pc' = "listed"
    /\ UNCHANGED <<store, instance_config, inputs, status, route, include_archived, page, calls, resp,
                   printed, projects_to_search, fanout, rendered>>

\* ListPageErr with a failed request taken for the end of the listing
ListPageErrPartial ==
    /\ pc = "list_await"
    /\ resp.kind = "Err"
    /\ listRet' = Ok(gp_all_projects)
    /\ gp_all_projects' = <<>>
    /\ pc' = "listed"
    /\ UNCHANGED <<store, instance_config, inputs, status, route, include_archived, page, calls, resp,
                   printed, projects_to_search, fanout, rendered>>

\* `?` on a failed request: get_projects returns the error, its caller's `?`
\* returns it from the handler and main returns it.
ListPageErr ==
    /\ pc = "list_await"
    /\ resp.kind = "Err"
    /\ listRet' = Err
    /\ gp_all_projects' = <<>>
    /\ status' = "ErrListing"
    /\ pc' = "exit"
    /\ UNCHANGED <<store, instance_config, inputs, route, include_archived, page, calls, resp,
                   printed, projects_to_search, fanout, rendered>>

\* -------------------------------------------------- handle_projects_command
StartProjects ==
    /\ pc = "start"
    /\ cmd = "projects"
    /\ BindInstance
    /\ EnterGetProjects(archived)
    /\ UNCHANGED <<store, inputs, status, route, printed, projects_to_search, fanout, rendered>>

PrintProjects ==
    /\ pc = "listed"
    /\ cmd = "projects"
    /\ printed' = listRet.val
    /\ status' = "Ok"
    /\ pc' = "exit"
    /\ UNCHANGED <<store, instance_config, inputs, route, listing, projects_to_search, fanout, rendered>>

\* --------------------------------------------------- handle_search_command
\* Line 400: project_id_or_path.parse::<u64>() succeeds
StartSearchNumeric ==
    /\ pc = "start"
    /\ cmd = "search"
    /\ BindInstance
    /\ project.some
    /\ parse_u64(project.val).ok
    /\ projects_to_search' = <<SyntheticProject(parse_u64(project.val).val, project.val)>>
    /\ route' = "numeric"
    /\ pc' = "resolved"
    /\ UNCHANGED <<store, inputs, status, listing, printed, fanout, rendered>>

\* Line 422: any other --project argument is looked up in the listing
StartSearchByPath ==
    /\ pc = "start"
    /\ cmd = "search"
    /\ BindInstance
    /\ project.some
    /\ ~parse_u64(project.val).ok
    /\ route' = "filter"
    /\ EnterGetProjects(FALSE)
    /\ UNCHANGED <<store, inputs, status, printed, projects_to_search, fanout, rendered>>

\* Line 428: no --project, --all-projects set
StartSearchAll ==
    /\ pc = "start"
    /\ cmd = "search"
    /\ BindInstance
    /\ ~project.some
    /\ all_projects
    /\ route' = "all"
    /\ EnterGetProjects(FALSE)
    /\ UNCHANGED <<store, inputs, status, printed, projects_to_search, fanout, rendered>>

\* StartSearchUsage with the missing arguments taken for --all-projects
StartSearchUsageListAll ==
    /\ pc = "start"
    /\ cmd = "search"
    /\ BindInstance
    /\ ~project.some
    /\ ~all_projects
    /\ route' = "all"
    /\ EnterGetProjects(FALSE)
    /\ UNCHANGED <<store, inputs, status, printed, projects_to_search, fanout, rendered>>

\* Line 431: neither
StartSearchUsage ==
    /\ pc = "start"
    /\ cmd = "search"
    /\ BindInstance
    /\ ~project.some
    /\ ~all_projects
    /\ route' = "usage"
    /\ status' = "ErrUsage"
    /\ pc' = "exit"
    /\ UNCHANGED <<store, inputs, listing, printed, projects_to_search, fanout, rendered>>

Lower(c) == IF c = "A" THEN "a" ELSE c

\* PathMatches with the comparison ignoring case
PathMatchesIgnoreCase(p, project_id_or_path) ==
    /\ Len(p.path_with_namespace) = Len(project_id_or_path)
    /\ \A k \in 1..Len(project_id_or_path) :
          Lower(p.path_with_namespace[k]) = Lower(project_id_or_path[k])

\* Line 425: .filter(|p| p.path_with_namespace == project_id_or_path)
PathMatches(p, project_id_or_path) == p.path_with_namespace = project_id_or_path

FilterByPath(all, project_id_or_path) ==
    LET Keep(p) == PathMatches(p, project_id_or_path) IN SelectSeq(all, Keep)

ResolveByPath ==
    /\ pc = "listed"
    /\ route = "filter"
    /\ projects_to_search' = FilterByPath(listRet.val, project.val)
    /\ pc' = "resolved"
    /\ UNCHANGED <<store, instance_config, inputs, status, route, listing, printed, fanout, rendered>>

ResolveAll ==
    /\ pc = "listed"
    /\ route = "all"
    /\ projects_to_search' = listRet.val
    /\ pc' = "resolved"
    /\ UNCHANGED <<store, instance_config, inputs, status, route, listing, printed, fanout, rendered>>

\* NoProjects with the empty set passed on to the fan-out
NoProjectsProceed ==
    /\ pc = "resolved"
    /\ Len(projects_to_search) = 0
    /\ pc' = "joined"
    /\ UNCHANGED <<store, instance_config, inputs, status, route, listing, printed,
                   projects_to_search, fanout, rendered>>

\* Lines 437-439
NoProjects ==
    /\ pc = "resolved"
    /\ Len(projects_to_search) = 0
    /\ status' = "ErrNoProjects"
    /\ pc' = "exit"
    /\ UNCHANGED <<store, instance_config, inputs, route, listing, printed, projects_to_search, fanout, rendered>>

N == Len(projects_to_search)

\* Lines 444-479: the progress bar, the shared results and one future per
\* project; the first poll of join_all polls every future in index order,
\* and each sends its search request.
Launch ==
    /\ pc = "resolved"
    /\ N > 0
    /\ taskpc' = [i \in 1..N |-> "Awaiting"]
    /\ returned' = [i \in 1..N |-> NoResp]
    /\ pending' = [i \in 1..N |-> <<>>]
    /\ searchCalls' = [i \in 1..N |-> [project_id |-> projects_to_search[i].id,
                                       url |-> instance_config.url,
                                       token |-> instance_config.token]]
    /\ results' = <<>>
    /\ pb_pos' = 0
    /\ pc' = "joining"
    /\ UNCHANGED <<store, instance_config, inputs, status, route, listing, printed, projects_to_search,
                   lock, errlog, rendered>>

\* search_project_blobs returns to task i: the matches, or an error
SearchResponses(project_id) ==
    {Ok(Matches(project_id, k)) : k \in 0..MaxMatches} \cup {Err}

TaskResponse(i) ==
    /\ pc = "joining"
    /\ taskpc[i] = "Awaiting"
    /\ returned' \in {[returned EXCEPT ![i] = r] : r \in SearchResponses(projects_to_search[i].id)}
    /\ taskpc' = [taskpc EXCEPT ![i] = "Returned"]
    /\ UNCHANGED <<store, instance_config, inputs, pc, status, route, listing, printed, projects_to_search,
                   pending, results, lock, pb_pos, errlog, searchCalls, rendered>>

\* TaskSearchErr with the failed request sent again
TaskSearchErrRetry(i) ==
    /\ pc = "joining"
    /\ taskpc[i] = "Returned"
    /\ returned[i].kind = "Err"
    /\ errlog' = Append(errlog, projects_to_search[i].name_with_namespace)
    /\ searchCalls' = Append(searchCalls, searchCalls[i])
    /\ returned' = [returned EXCEPT ![i] = NoResp]
    /\ taskpc' = [taskpc EXCEPT ![i] = "Awaiting"]
    /\ UNCHANGED <<store, instance_config, inputs, pc, status, route, listing, printed,
                   projects_to_search, pending, results, lock, pb_pos, rendered>>

\* TaskSearchErr with the failure cancelling the sibling futures
TaskSearchErrCancel(i) ==
    /\ pc = "joining"
    /\ taskpc[i] = "Returned"
    /\ returned[i].kind = "Err"
    /\ errlog' = Append(errlog, projects_to_search[i].name_with_namespace)
    /\ pb_pos' = pb_pos + 1
    /\ taskpc' = [j \in 1..Len(taskpc) |-> "Done"]
    /\ lock' = 0
    /\ UNCHANGED <<store, instance_config, inputs, pc, status, route, listing, printed, projects_to_search,
                   returned, pending, results, searchCalls, rendered>>

\* Err(e) arm: eprintln!; then pb.inc(1) and the future completes (there
\* is no await between the two)
TaskSearchErr(i) ==
    /\ pc = "joining"
    /\ taskpc[i] = "Returned"
    /\ returned[i].kind = "Err"
    /\ errlog' = Append(errlog, projects_to_search[i].name_with_namespace)
    /\ pb_pos' = pb_pos + 1
    /\ taskpc' = [taskpc EXCEPT ![i] = "Done"]
    /\ UNCHANGED <<store, instance_config, inputs, pc, status, route, listing, printed, projects_to_search,
                   returned, pending, results, lock, searchCalls, rendered>>

\* TaskLock without mutual exclusion
TaskLockUnguarded(i) ==
    /\ pc = "joining"
    /\ taskpc[i] = "Returned"
    /\ returned[i].kind = "Ok"
    /\ lock' = i
    /\ pending' = [pending EXCEPT ![i] = returned[i].val]
    /\ taskpc' = [taskpc EXCEPT ![i] = "Locked"]
    /\ UNCHANGED <<store, instance_config, inputs, pc, status, route, listing, printed, projects_to_search,
                   returned, results, pb_pos, errlog, searchCalls, rendered>>

\* Ok arm: results.lock().await
TaskLock(i) ==
    /\ pc = "joining"
    /\ taskpc[i] = "Returned"
    /\ returned[i].kind = "Ok"
    /\ lock = 0
    /\ lock' = i
    /\ pending' = [pending EXCEPT ![i] = returned[i].val]
    /\ taskpc' = [taskpc EXCEPT ![i] = "Locked"]
    /\ UNCHANGED <<store, instance_config, inputs, pc, status, route, listing, printed, projects_to_search,
                   returned, results, pb_pos, errlog, searchCalls, rendered>>

\* results_guard.push((project_name.clone(), result))
TaskPush(i) ==
    /\ pc = "joining"
    /\ taskpc[i] = "Locked"
    /\ Len(pending[i]) > 0
    /\ results' = Append(results, <<projects_to_search[i].name_with_namespace,
                                    Head(pending[i])>>)
    /\ pending' = [pending EXCEPT ![i] = Tail(pending[i])]
    /\ UNCHANGED <<store, instance_config, inputs, pc, status, route, listing, printed, projects_to_search,
                   taskpc, returned, lock, pb_pos, errlog, searchCalls, rendered>>

\* TaskUnlock with the progress bar left alone on the success path
TaskUnlockNoInc(i) ==
    /\ pc = "joining"
    /\ taskpc[i] = "Locked"
    /\ Len(pending[i]) = 0
    /\ lock' = 0
    /\ taskpc' = [taskpc EXCEPT ![i] = "Done"]
    /\ UNCHANGED <<store, instance_config, inputs, pc, status, route, listing, printed, projects_to_search,
                   returned, pending, results, pb_pos, errlog, searchCalls, rendered>>

\* TaskUnlock with the guard kept alive: the lock is never released
TaskUnlockLeak(i) ==
    /\ pc = "joining"
    /\ taskpc[i] = "Locked"
    /\ Len(pending[i]) = 0
    /\ pb_pos' = pb_pos + 1
    /\ taskpc' = [taskpc EXCEPT ![i] = "Done"]
    /\ UNCHANGED <<store, instance_config, inputs, pc, status, route, listing, printed, projects_to_search,
                   returned, pending, results, lock, errlog, searchCalls, rendered>>

\* End of the Ok arm: results_guard is dropped; then pb.inc(1) and the
\* future completes (there is no await between the two)
TaskUnlock(i) ==
    /\ pc = "joining"
    /\ taskpc[i] = "Locked"
    /\ Len(pending[i]) = 0
    /\ lock' = 0
    /\ pb_pos' = pb_pos + 1
    /\ taskpc' = [taskpc EXCEPT ![i] = "Done"]
    /\ UNCHANGED <<store, instance_config, inputs, pc, status, route, listing, printed, projects_to_search,
                   returned, pending, results, errlog, searchCalls, rendered>>

\* JoinReady as try_join_all has it: ready on the first failed future
JoinReadyFailFast ==
    \/ \A i \in 1..N : taskpc[i] = "Done"
    \/ \E i \in 1..N : taskpc[i] = "Done" /\ returned[i].kind = "Err"

\* join_all(tasks) is ready when every future has completed
JoinReady == \A i \in 1..N : taskpc[i] = "Done"

JoinAll ==
    /\ pc = "joining"
    /\ JoinReady
    /\ pc' = "joined"
    /\ UNCHANGED <<store, instance_config, inputs, status, route, listing, printed, projects_to_search,
                   fanout, rendered>>

\* SearchOutcome with a failed task failing the run
SearchOutcomeStrict(rets) ==
    IF \E i \in 1..Len(rets) : rets[i].kind = "Err" THEN "ErrSearch" ELSE "Ok"

\* Line 503: what handle_search_command returns after rendering
SearchOutcome(rets) == "Ok"

\* Lines 482-503: lock the results, print them in list order, return Ok
Render ==
    /\ pc = "joined"
    /\ lock = 0
    /\ rendered' = results
    /\ status' = SearchOutcome(returned)
    /\ pc' = "exit"
    /\ UNCHANGED <<store, instance_config, inputs, route, listing, printed, projects_to_search, fanout>>

Next ==
    \/ StartProjects
    \/ ListSend
    \/ ListPageOk
    \/ ListPageEmpty
    \/ ListPageErr
    \/ PrintProjects
    \/ StartSearchNumeric
    \/ StartSearchByPath
    \/ StartSearchAll
    \/ StartSearchUsage
    \/ ResolveByPath
    \/ ResolveAll
    \/ NoProjects
    \/ Launch
    \/ \E i \in 1..N : TaskResponse(i)
    \/ \E i \in 1..N : TaskSearchErr(i)
    \/ \E i \in 1..N : TaskLock(i)
    \/ \E i \in 1..N : TaskPush(i)
    \/ \E i \in 1..N : TaskUnlock(i)
    \/ JoinAll
    \/ Render

Spec == Init /\ [][Next]_vars


\* ------------------------------------- runs that vary the configuration
\* Backends of at most one page of at most one project
TinyBackends ==
    {b \in Backends : ~b.repeat /\ Len(b.pages) <= 1 /\ Len(Flatten(b.pages)) <= 1}

\* Search and projects commands under every registry and --instance
InitInstance ==
    /\ registry \in Registries
    /\ instance \in {None} \cup {Some(n) : n \in InstanceNames}
    /\ cmd \in {"search", "projects"}
    /\ \/ cmd = "search"
          /\ project \in {None, Some(<<"1">>), Some(<<"a">>)}
          /\ all_projects \in BOOLEAN
          /\ archived = FALSE
       \/ cmd = "projects"
          /\ project = None
          /\ all_projects = FALSE
          /\ archived \in BOOLEAN
    /\ backend \in TinyBackends
    /\ InitRun

NextInstance ==
    \/ InstanceNotFound
    \/ NoInstances
    \/ Next

SpecInstance == InitInstance /\ [][NextInstance]_vars

\* ------------------------------------------------ the fan-out, scheduled
\* Backends of at most one page
OnePageBackends == {b \in Backends : ~b.repeat /\ Len(b.pages) <= 1}

\* search --all-projects against one configured instance
InitFanout ==
    /\ registry = DefaultRegistry
    /\ instance = None
    /\ cmd = "search"
    /\ project = None
    /\ all_projects = TRUE
    /\ archived = FALSE
    /\ backend \in OnePageBackends
    /\ InitRun

\* A step of one of the task futures, the remote's answer included
TaskStep ==
    \E i \in 1..N :
        \/ TaskResponse(i)
        \/ TaskSearchErr(i)
        \/ TaskLock(i)
        \/ TaskPush(i)
        \/ TaskUnlock(i)

NextFanout ==
    \/ StartSearchAll
    \/ ListSend
    \/ ListPageOk
    \/ ListPageEmpty
    \/ ListPageErr
    \/ ResolveAll
    \/ NoProjects
    \/ Launch
    \/ TaskStep
    \/ JoinAll
    \/ Render

\* The runtime polls a future that can make progress, every search call
\* returns, and the handler goes on once join_all is ready.
SpecFanout ==
    /\ InitFanout
    /\ [][NextFanout]_vars
    /\ WF_vars(TaskStep)
    /\ WF_vars(JoinAll)
    /\ WF_vars(Render)

\* ------------------------------------------------- the config command
\* iter().position(|i| i.name == name_val): 0 stands for None
position(reg, name) ==
    IF \E k \in 1..Len(reg) : reg[k].name = name
    THEN CHOOSE k \in 1..Len(reg) :
             /\ reg[k].name = name
             /\ \A j \in 1..(k - 1) : reg[j].name # name
    ELSE 0

\* The upsert that always pushes
UpsertAppend(reg, entry) == Append(reg, entry)

\* Replace the entry of that name where it stands, or push a new one
Upsert(reg, entry) ==
    IF position(reg, entry.name) # 0
    THEN [reg EXCEPT ![position(reg, entry.name)] = entry]
    ELSE Append(reg, entry)

OptionsOf(S) == {None} \cup {Some(s) : s \in S}

ConfigArgs(name, url, token, list, outcome, connected) ==
    [name |-> name, url |-> url, token |-> token, list |-> list,
     outcome |-> outcome, connected |-> connected]

\* config --list, whatever else is given: print the instances and return
ConfigList ==
    /\ cmd = "config"
    /\ pc = "start"
    /\ \E name \in OptionsOf(InstanceNames), url \in OptionsOf(Urls), token \in OptionsOf(Tokens) :
           last_config' = ConfigArgs(name, url, token, TRUE, "listed", FALSE)
    /\ UNCHANGED <<registry, instance_config, inputs, pc, status, route, listing, printed,
                   projects_to_search, fanout, rendered>>

\* config --name --url --token: upsert, save_config, then the version
\* request, whose failure is only reported
ConfigUpsert ==
    /\ cmd = "config"
    /\ pc = "start"
    /\ \E name \in InstanceNames, url \in Urls, token \in Tokens, connected \in BOOLEAN :
           /\ registry' = Upsert(registry, GitLabConfig(name, url, token))
           /\ last_config' = ConfigArgs(Some(name), Some(url), Some(token), FALSE,
                                        IF position(registry, name) # 0 THEN "updated" ELSE "added",
                                        connected)
    /\ UNCHANGED <<instance_config, inputs, pc, status, route, listing, printed,
                   projects_to_search, fanout, rendered>>

\* config with some but not all of name, url and token
ConfigPartial ==
    /\ cmd = "config"
    /\ pc = "start"
    /\ \E name \in OptionsOf(InstanceNames), url \in OptionsOf(Urls), token \in OptionsOf(Tokens) :
           /\ name.some \/ url.some \/ token.some
           /\ ~(name.some /\ url.some /\ token.some)
           /\ last_config' = ConfigArgs(name, url, token, FALSE, "incomplete", FALSE)
    /\ UNCHANGED <<registry, instance_config, inputs, pc, status, route, listing, printed,
                   projects_to_search, fanout, rendered>>

\* config with no argument: the hint
ConfigHint ==
    /\ cmd = "config"
    /\ pc = "start"
    /\ last_config' = ConfigArgs(None, None, None, FALSE, "hint", FALSE)
    /\ UNCHANGED <<registry, instance_config, inputs, pc, status, route, listing, printed,
                   projects_to_search, fanout, rendered>>

\* Runs of the config command, one after the other, on any registry of
\* distinct names. Reading and writing config.json are taken to succeed.
InitConfig ==
    /\ registry \in Registries
    /\ instance = None
    /\ cmd = "config"
    /\ project = None
    /\ all_projects = FALSE
    /\ archived = FALSE
    /\ backend = ExampleBackend
    /\ InitRun

NextConfig ==
    \/ ConfigList
    \/ ConfigUpsert
    \/ ConfigPartial
    \/ ConfigHint

SpecConfig == InitConfig /\ [][NextConfig]_vars

\* ================================================================= claims
Last(s) == s[Len(s)]

Count(s, e) == Cardinality({k \in 1..Len(s) : s[k] = e})

Launched == Len(taskpc) > 0

\* join_all has returned
Joined == Launched /\ pc \in {"joined", "exit"}

Failed(i) == returned[i].kind = "Err"

Succeeded(i) == returned[i].kind = "Ok"

\* The (project_name, result) entries task i owes the aggregate
Block(i) ==
    IF Succeeded(i)
    THEN [j \in 1..Len(returned[i].val) |->
            <<projects_to_search[i].name_with_namespace, returned[i].val[j]>>]
    ELSE <<>>

RECURSIVE BlocksInOrder(_)
BlocksInOrder(n) == IF n = 0 THEN <<>> ELSE BlocksInOrder(n - 1) \o Block(n)

\* C1: whatever the order in which the tasks complete, the rendered
\* aggregate lists the matches grouped by project in the index order of
\* projects_to_search.
C1_ResolutionOrder ==
    (cmd = "search" /\ pc = "exit" /\ status = "Ok") => rendered = BlocksInOrder(N)

\* C2: failure isolation.  After the join every task has sent its request,
\* got its answer and completed, and the aggregate holds each match of each
\* succeeding task exactly once and nothing else.
C2_FailureIsolation ==
    Joined =>
        /\ Len(searchCalls) = N
        /\ \A i \in 1..N : taskpc[i] = "Done" /\ returned[i].kind # "None"
        /\ Len(results) = Len(BlocksInOrder(N))
        /\ \A k \in 1..Len(BlocksInOrder(N)) :
              Count(results, BlocksInOrder(N)[k]) = Count(BlocksInOrder(N), BlocksInOrder(N)[k])
        /\ pc = "exit" => rendered = results

C2_Witness ==
    /\ Joined
    /\ pc = "exit"
    /\ N >= 2
    /\ \E i, j \in 1..N : Failed(i) /\ Succeeded(j) /\ Len(returned[j].val) = 2
    /\ Len(rendered) >= 2

\* C3: with exactly one failing task the aggregate has one entry for each
\* of the N projects, keyed by the project: N entries in all.
C3_EntryPerProject ==
    (Joined /\ Cardinality({i \in 1..N : Failed(i)}) = 1) =>
        /\ Len(results) = N
        /\ \A i \in 1..N :
              \E k \in 1..Len(results) :
                  results[k][1] = projects_to_search[i].name_with_namespace

\* C4: join barrier.  The join has completed, and the aggregate is read and
\* rendered, only when every task is in a terminal state.
C4_JoinBarrier ==
    /\ Joined => \A i \in 1..N : taskpc[i] = "Done"
    /\ (Launched /\ ~Joined) => rendered = <<>> /\ status = "Running"

C4_Witness ==
    /\ pc = "joined"
    /\ N >= 2
    /\ \E i, j \in 1..N : Failed(i) /\ Succeeded(j) /\ Len(returned[j].val) > 0

\* C5: once the tasks of a non-empty project set are launched, the command
\* ends with status success, whichever tasks fail.
C5_DegradedIsSuccess ==
    /\ (Launched /\ pc = "exit") => status = "Ok"
    /\ (Launched /\ pc # "exit") => status = "Running"

C5_Witness ==
    /\ Launched
    /\ pc = "exit"
    /\ status = "Ok"
    /\ N >= 2
    /\ \A i \in 1..N : Failed(i)

\* Number of the first empty page of a backend that runs out
FirstEmptyPage(b) ==
    CHOOSE n \in 1..(Len(b.pages) + 1) :
        /\ Len(PageIds(b, n)) = 0
        /\ \A m \in 1..(n - 1) : Len(PageIds(b, m)) > 0

RECURSIVE PagesUpTo(_, _)
PagesUpTo(b, k) == IF k = 0 THEN <<>> ELSE PagesUpTo(b, k - 1) \o PageOf(b, k)

\* C6: pagination.  The requests are for pages 1, 2, ... in order with
\* page size 50; against a backend whose first empty page is k+1 no page
\* after k+1 is requested, and a successful get_projects has made exactly
\* k+1 requests and returns pages 1..k concatenated.
C6_Pagination ==
    /\ \A j \in 1..Len(calls) : calls[j].page = j /\ calls[j].per_page = 50
    /\ ~backend.repeat =>
          /\ Len(calls) <= FirstEmptyPage(backend)
          /\ listRet.kind = "Ok" =>
                /\ Len(calls) = FirstEmptyPage(backend)
                /\ listRet.val = PagesUpTo(backend, FirstEmptyPage(backend) - 1)

C6_Witness ==
    /\ backend = ExampleBackend
    /\ listRet.kind = "Ok"
    /\ Len(listRet.val) = 123
    /\ Len(calls) = 4
    /\ Len(printed) = 123

\* C7: when two consecutive pages are non-empty and end in the same project
\* id, get_projects has failed once the second of them is handled.
C7_ProtocolError ==
    (/\ Len(calls) >= 2
     /\ pc # "list_await"
     /\ resp.kind = "Ok"
     /\ Len(PageIds(backend, Len(calls) - 1)) > 0
     /\ Len(PageIds(backend, Len(calls))) > 0
     /\ Last(PageIds(backend, Len(calls) - 1)) = Last(PageIds(backend, Len(calls))))
    => listRet.kind = "Err"

\* C8: listing is all-or-nothing.  Once a page request has failed,
\* get_projects has returned the error and no project, the failed request
\* is the last one sent, the command has ended with that error, nothing is
\* printed and no search task exists.
C8_AllOrNothing ==
    (resp.kind = "Err" /\ pc # "list_await") =>
        /\ listRet = Err
        /\ Len(calls) = page
        /\ pc = "exit"
        /\ status = "ErrListing"
        /\ printed = <<>>
        /\ projects_to_search = <<>>
        /\ ~Launched
        /\ searchCalls = <<>>
        /\ rendered = <<>>

C8_Witness ==
    /\ cmd = "search"
    /\ resp.kind = "Err"
    /\ pc = "exit"
    /\ page = 2
    /\ Len(PageIds(backend, 1)) = 2

\* The argument is a decimal numeral of an integer n > 0
IsPositiveInteger(opt) ==
    opt.some /\ parse_u64(opt.val).ok /\ parse_u64(opt.val).val > 0

\* C9: the argument is resolved to a single synthetic project, without a
\* listing request, exactly when it parses as a positive integer n, and the
\* project's id is then n.
C9_NumericPath ==
    (cmd = "search" /\ pc # "start") =>
        /\ (route = "numeric") <=> IsPositiveInteger(project)
        /\ route = "numeric" =>
              /\ Len(projects_to_search) = 1
              /\ projects_to_search[1].id = parse_u64(project.val).val
              /\ calls = <<>>

RECURSIVE ExactMatches(_, _)
ExactMatches(ps, s) ==
    IF Len(ps) = 0 THEN <<>>
    ELSE IF Head(ps).path_with_namespace = s
         THEN <<Head(ps)>> \o ExactMatches(Tail(ps), s)
         ELSE ExactMatches(Tail(ps), s)

\* C10: a non-empty argument that does not parse as a number is resolved
\* by listing with archived=false and keeping, in listing order, exactly
\* the projects whose path_with_namespace equals it; an empty outcome is
\* the resolution's result, not an error of the resolution.
C10_PathMatch ==
    (cmd = "search" /\ project.some /\ Len(project.val) > 0
       /\ ~parse_u64(project.val).ok /\ pc # "start") =>
        /\ route = "filter"
        /\ \A j \in 1..Len(calls) : calls[j].archived = FALSE
        /\ pc \in {"resolved", "joining", "joined"} \/ status \in {"Ok", "ErrNoProjects"} =>
              /\ Len(calls) >= 1
              /\ listRet.kind = "Ok"
              /\ projects_to_search = ExactMatches(listRet.val, project.val)
        /\ pc = "resolved" => status = "Running"

C10_Witness ==
    /\ route = "filter"
    /\ pc = "resolved"
    /\ project = Some(<<"a">>)
    /\ Len(listRet.val) = 3
    /\ projects_to_search = <<Project(1), Project(3)>>

\* C11: a search with neither --project nor --all-projects fails with the
\* usage error and sends no request: no listing call, no search call.
C11_UsageError ==
    (/\ cmd = "search"
     /\ find_instance(registry, instance).kind = "Ok"
     /\ ~project.some
     /\ ~all_projects
     /\ pc # "start")
    => /\ status = "ErrUsage"
       /\ pc = "exit"
       /\ calls = <<>>
       /\ searchCalls = <<>>
       /\ ~Launched
       /\ rendered = <<>>

C11_Witness ==
    /\ route = "usage"
    /\ status = "ErrUsage"
    /\ pc = "exit"
    /\ Len(PageIds(backend, 1)) > 0

\* C12: an empty resolved project set ends the search command with the
\* "no projects" error: no task is launched, no search request is sent and
\* nothing is rendered.
C12_EmptySetIsError ==
    (/\ cmd = "search"
     /\ route \in {"filter", "all"}
     /\ listRet.kind = "Ok"
     /\ pc \in {"joining", "joined", "exit"}
     /\ Len(projects_to_search) = 0)
    => /\ status = "ErrNoProjects"
       /\ pc = "exit"
       /\ ~Launched
       /\ searchCalls = <<>>
       /\ results = <<>>
       /\ rendered = <<>>

C12_Witness ==
    /\ route = "filter"
    /\ status = "ErrNoProjects"
    /\ pc = "exit"
    /\ Len(listRet.val) > 0
    /\ projects_to_search = <<>>

Named(reg, n) == \E k \in 1..Len(reg) : reg[k].name = n

\* C13: configuration errors come before any request.  With a named
\* instance that is not configured, or no name and nothing configured, the
\* search and projects commands end with that error and have sent no
\* listing and no search request; with no name and a non-empty registry
\* every request of the run goes to the first configured instance.
C13_ConfigErrorsFirst ==
    (cmd \in {"search", "projects"} /\ pc # "start") =>
        /\ (instance.some /\ ~Named(registry, instance.val)) =>
              /\ status = "ErrInstanceNotFound"
              /\ pc = "exit"
              /\ calls = <<>>
              /\ searchCalls = <<>>
              /\ ~Launched
        /\ (~instance.some /\ Len(registry) = 0) =>
              /\ status = "ErrNoInstances"
              /\ pc = "exit"
              /\ calls = <<>>
              /\ searchCalls = <<>>
              /\ ~Launched
        /\ (~instance.some /\ Len(registry) > 0) =>
              /\ status \notin {"ErrInstanceNotFound", "ErrNoInstances"}
              /\ \A j \in 1..Len(calls) :
                    calls[j].url = registry[1].url /\ calls[j].token = registry[1].token
              /\ \A j \in 1..Len(searchCalls) :
                    /\ searchCalls[j].url = registry[1].url
                    /\ searchCalls[j].token = registry[1].token

\* The default instance is used by a listing and by a search of one run
C13_Witness ==
    /\ cmd = "search"
    /\ ~instance.some
    /\ Len(registry) = 2
    /\ registry[1].url # registry[2].url
    /\ Len(calls) = 2
    /\ Len(searchCalls) = 1
    /\ pc = "exit"

\* C14: one search request per resolved project.  From the launch on there
\* are exactly N search requests, the i-th for the id of the i-th project;
\* no request is added afterwards, an answer once received by a task is
\* never replaced and a task that is done stays done.
C14_OneRequestPerProject ==
    [][/\ Launched' =>
             /\ Len(searchCalls') = N'
             /\ \A i \in 1..N' : searchCalls'[i].project_id = projects_to_search'[i].id
       /\ Launched =>
             /\ searchCalls' = searchCalls
             /\ projects_to_search' = projects_to_search
             /\ \A i \in 1..N :
                   /\ returned[i].kind # "None" => returned'[i] = returned[i]
                   /\ taskpc[i] = "Done" => taskpc'[i] = "Done"]_vars

C14_Witness ==
    /\ Joined
    /\ N = 3
    /\ Failed(2)
    /\ Succeeded(1)
    /\ Succeeded(3)
    /\ Len(searchCalls) = 3

\* C15: with --all-projects and the argument absent or empty the resolved
\* set is the full listing for archived=false; with a non-empty argument
\* the flag changes nothing: the numeric or the path rule decides.
C15_AllProjectsRule ==
    (cmd = "search" /\ all_projects /\ pc = "resolved") =>
        /\ (~project.some \/ Len(project.val) = 0) =>
              /\ listRet.kind = "Ok"
              /\ projects_to_search = listRet.val
              /\ \A j \in 1..Len(calls) : calls[j].archived = FALSE
        /\ (project.some /\ Len(project.val) > 0) =>
              IF parse_u64(project.val).ok
              THEN /\ calls = <<>>
                   /\ Len(projects_to_search) = 1
                   /\ projects_to_search[1].id = parse_u64(project.val).val
              ELSE projects_to_search = ExactMatches(listRet.val, project.val)

DoneTasks == {i \in 1..N : taskpc[i] = "Done"}

AnsweredTasks == {i \in 1..N : returned[i].kind # "None"}

\* C16: the progress counter is the number of completed tasks (one step
\* per completion, failed or not): never more than the number of tasks
\* whose search call has returned, never more than N, and N at the join.
C16_ProgressCounter ==
    Launched =>
        /\ pb_pos = Cardinality(DoneTasks)
        /\ pb_pos <= Cardinality(AnsweredTasks)
        /\ pb_pos <= N
        /\ Joined => pb_pos = N

C16_Witness ==
    /\ Joined
    /\ N = 3
    /\ pb_pos = 3
    /\ \E i, j \in 1..N : Failed(i) /\ Succeeded(j)

\* Positions of the aggregate that hold entries of task i
Positions(i) ==
    {k \in 1..Len(results) : results[k][1] = projects_to_search[i].name_with_namespace}

First(P) == CHOOSE k \in P : \A j \in P : k <= j

\* C18: the lock has one holder at a time, and the entries of a task are
\* one contiguous block of the list, in the order the search returned
\* them: complete once the task is done, empty before it holds the lock,
\* and partial only while it holds the lock, at the end of the list.
C18_ContiguousBlocks ==
    Launched =>
        /\ lock \in 0..N
        /\ \A i \in 1..N : (taskpc[i] = "Locked") <=> (lock = i)
        /\ \A i \in 1..N :
              LET P == Positions(i)
                  n == Cardinality(P)
              IN  /\ \A a, b \in P : \A c \in a..b : c \in P
                  /\ n <= Len(Block(i))
                  /\ \A k \in P : results[k] = Block(i)[k - First(P) + 1]
                  /\ taskpc[i] = "Done" => n = Len(Block(i))
                  /\ taskpc[i] \in {"Awaiting", "Returned"} => n = 0
                  /\ taskpc[i] = "Locked" =>
                        /\ n + Len(pending[i]) = Len(Block(i))
                        /\ n > 0 => Len(results) \in P

\* A task holds the lock half-way through its block, behind another block
C18_Witness ==
    /\ Launched
    /\ lock # 0
    /\ Len(pending[lock]) = 1
    /\ Cardinality(Positions(lock)) = 1
    /\ Len(results) = 3
    /\ \E j \in 1..N : j > lock /\ taskpc[j] = "Done" /\ Cardinality(Positions(j)) = 2
    /\ \E j \in 1..N : taskpc[j] = "Returned" /\ Succeeded(j)

\* What each unfinished task can do: one that awaits its answer or has a
\* failed answer is never held up, one with matches waits for nothing but
\* a free lock, and the holder of the lock can always go on to release it.
NoTaskWaitsOnATask ==
    (Launched /\ pc = "joining") =>
        \A i \in 1..N :
            /\ taskpc[i] = "Awaiting" => ENABLED TaskResponse(i)
            /\ (taskpc[i] = "Returned" /\ Failed(i)) => ENABLED TaskSearchErr(i)
            /\ (taskpc[i] = "Returned" /\ Succeeded(i) /\ lock = 0) => ENABLED TaskLock(i)
            /\ taskpc[i] = "Locked" => ENABLED (TaskPush(i) \/ TaskUnlock(i))

\* C17: no task waits on another task except for the lock, whose holder
\* can always proceed; and under fair scheduling, with every search call
\* returning, a launched fan-out always leads to every task being done,
\* the join completing and the command returning.
C17_Termination ==
    /\ []NoTaskWaitsOnATask
    /\ Launched ~> (pc = "exit" /\ \A i \in 1..N : taskpc[i] = "Done")

\* A task with matches waits for the lock another task holds
C17_Witness ==
    /\ pc = "joining"
    /\ N = 2
    /\ lock = 2
    /\ Len(pending[2]) > 0
    /\ taskpc[1] = "Returned"
    /\ Succeeded(1)

\* The config command that has just run was given name, url and token
\* and no list flag
ConfiguredAll(c) == ~c.list /\ c.name.some /\ c.url.some /\ c.token.some

NamesOf(reg) == [k \in 1..Len(reg) |-> reg[k].name]

\* C19: every config command keeps the names pairwise distinct; with
\* name, url and token it replaces the entry of an existing name where it
\* stands (every name keeps its position, the first entry included) and
\* appends one entry at the end for a new name; with the list flag, or
\* with only some of name, url and token, it leaves the registry as it was.
C19_RegistryNamesUnique ==
    [][ /\ DistinctNames(registry) => DistinctNames(registry')
        /\ ConfiguredAll(last_config') =>
              LET entry == GitLabConfig(last_config'.name.val, last_config'.url.val,
                                        last_config'.token.val)
              IN  IF \E k \in 1..Len(registry) : registry[k].name = entry.name
                  THEN /\ NamesOf(registry') = NamesOf(registry)
                       /\ \A k \in 1..Len(registry) :
                              registry'[k] = IF registry[k].name = entry.name
                                             THEN entry ELSE registry[k]
                  ELSE registry' = Append(registry, entry)
        /\ ~ConfiguredAll(last_config') => registry' = registry
      ]_vars

\* An update of the second entry has left the first, default, entry alone
C19_Witness ==
    /\ cmd = "config"
    /\ last_config.outcome = "updated"
    /\ Len(registry) = 2
    /\ last_config.name.val = registry[2].name
    /\ registry[2].url = <<"u", "2">>
    /\ registry[1].name # registry[2].name
====
